---- MODULE Spec2Model ----
(***************************************************************************)
(* Model of main.py of saura101/transcriptionApp: the /transcribe/ request *)
(* handler (upload, job submission, polling, result fetch) against an      *)
(* object store and a transcription service, and the pure function        *)
(* convert_to_srt.  Text is modelled as a sequence of one-character        *)
(* strings, timestamps as whole milliseconds.                              *)
(***************************************************************************)
EXTENDS Integers, Sequences, FiniteSets, TLC

\* ------------------------------------------------------------------ bounds
\* longest items list handed to convert_to_srt
MaxItems == 3
\* largest number of status polls one request is followed through
MaxPolls == 2
\* last second of the wall clock
MaxClock == 1

\* --------------------------------------------------------------- constants
BUCKET_NAME == "transcription-input-folder"
OUTPUT_BUCKET_NAME == "transcription-output-folder"
AWS_REGION == "ap-south-1"
\* seconds between two polls
SleepSecs == 5

VARIABLES
    \* ---- convert_to_srt
    transcription_json, \* the argument: [results |-> [items |-> <<...>>]]
    pos,                \* number of items the for loop has consumed
    srt_output,         \* list of cue texts
    counter,            \* next cue index
    start_time_srt,     \* clock string of the last timed item (<<>>: unbound)
    end_time_srt,
    srt_pc,             \* "off" | "loop" | "returned"
    srt_result,         \* the returned document
    \* ---- environment of the handlers
    clock,              \* int(time.time())
    store,              \* object store: <<bucket, key>> -> body
    jobs,               \* transcription service: job name -> job record
    \* ---- one /transcribe/ request each
    pc, file, job_name, file_uri, response, job_status, reply, calls,
    \* ---- one /upload/media/ request each
    up_pc,              \* "idle" | "done"
    up_key,             \* s3_object_key
    up_reply,           \* the response
    up_calls            \* the external calls made

srtVars == <<transcription_json, pos, srt_output, counter, start_time_srt,
             end_time_srt, srt_pc, srt_result>>
envVars == <<clock, store, jobs>>
reqVars == <<pc, file, job_name, file_uri, response, job_status, reply, calls>>
upVars == <<up_pc, up_key, up_reply, up_calls>>
vars == <<srtVars, envVars, reqVars, upVars>>

\* ============================================================ text helpers
Digits == <<"0", "1", "2", "3", "4", "5", "6", "7", "8", "9">>

IsDigit(c) == \E d \in 1..10 : Digits[d] = c

\* str(n) / f"{n}" for a non-negative int: decimal, no padding
RECURSIVE ToStr(_)
ToStr(n) == IF n < 10 THEN <<Digits[n + 1]>>
            ELSE ToStr(n \div 10) \o <<Digits[(n % 10) + 1]>>

\* strftime's %H, %M, %S: a two-digit zero-padded field (value below 100)
Pad2(n) == <<Digits[(n \div 10) + 1], Digits[(n % 10) + 1]>>

\* time.gmtime(t) for t in milliseconds: the fraction is dropped and the
\* broken-down time is a time of day (hours wrap at 24)
gmtime(t) ==
    LET secs == t \div 1000
    IN  [tm_hour |-> (secs \div 3600) % 24,
         tm_min  |-> (secs \div 60) % 60,
         tm_sec  |-> secs % 60]

\* time.strftime('%H:%M:%S', tm)
strftime(tm) ==
    Pad2(tm.tm_hour) \o <<":">> \o Pad2(tm.tm_min) \o <<":">> \o Pad2(tm.tm_sec)

\* int((t % 1) * 1000): the millisecond remainder of t
MilliPart(t) == t % 1000

\* f",{int((t % 1) * 1000)}": the remainder printed without padding
MilliSuffix(t) == <<",">> \o ToStr(MilliPart(t))

\* lines 102/103: the clock string built for a timestamp
ClockString(t) == strftime(gmtime(t)) \o MilliSuffix(t)

\* a join that also puts the separator after the last element
RECURSIVE JoinTrailing(_, _)
JoinTrailing(sep, list) ==
    IF list = <<>> THEN <<>>
    ELSE list[1] \o sep \o JoinTrailing(sep, Tail(list))

\* "sep".join(list)
RECURSIVE Join(_, _)
Join(sep, list) ==
    IF list = <<>> THEN <<>>
    ELSE IF Len(list) = 1 THEN list[1]
    ELSE list[1] \o sep \o Join(sep, Tail(list))

\* ========================================================== convert_to_srt
\* line 96: 'start_time' in item and 'end_time' in item
IsTimed(item) == "start_time" \in DOMAIN item /\ "end_time" \in DOMAIN item

\* line 106: f"{counter}\n{start_time_srt} --> {end_time_srt}\n{content}\n"
CueText(n, start, end, content) ==
    ToStr(n) \o <<"\n">> \o start \o <<" ", "-", "-", ">", " ">> \o end
             \o <<"\n">> \o content \o <<"\n">>

Items == transcription_json.results.items

\* one pass of the for loop over an item carrying both times
LoopTimed ==
    /\ srt_pc = "loop"
    /\ pos < Len(Items)
    /\ LET item == Items[pos + 1]
           content == item.alternatives[1].content
       IN  /\ IsTimed(item)
           /\ start_time_srt' = ClockString(item.start_time)
           /\ end_time_srt' = ClockString(item.end_time)
           /\ srt_output' = Append(srt_output,
                  CueText(counter, start_time_srt', end_time_srt', content))
           /\ counter' = counter + 1
    /\ pos' = pos + 1
    /\ UNCHANGED <<transcription_json, srt_pc, srt_result, envVars, reqVars, upVars>>

\* a loop pass that spends an index on an item missing a time
LoopUntimedCounting ==
    /\ srt_pc = "loop"
    /\ pos < Len(Items)
    /\ ~IsTimed(Items[pos + 1])
    /\ pos' = pos + 1
    /\ counter' = counter + 1
    /\ UNCHANGED <<transcription_json, srt_output, start_time_srt,
                   end_time_srt, srt_pc, srt_result, envVars, reqVars, upVars>>

\* one pass of the for loop over an item missing a time
LoopUntimed ==
    /\ srt_pc = "loop"
    /\ pos < Len(Items)
    /\ ~IsTimed(Items[pos + 1])
    /\ pos' = pos + 1
    /\ UNCHANGED <<transcription_json, srt_output, counter, start_time_srt,
                   end_time_srt, srt_pc, srt_result, envVars, reqVars, upVars>>

\* line 109: return "\n".join(srt_output)
SrtReturn ==
    /\ srt_pc = "loop"
    /\ pos = Len(Items)
    /\ srt_result' = Join(<<"\n">>, srt_output)
    /\ srt_pc' = "returned"
    /\ UNCHANGED <<transcription_json, pos, srt_output, counter, start_time_srt,
                   end_time_srt, envVars, reqVars, upVars>>

\* ------------------------------------------------ inputs of convert_to_srt
TimeStamps == {0, 7, 50, 1001, 3661250, 90061007}
Hi == <<"h", "i">>
Yo == <<"y", "o">>
Dot == <<".">>

TimedItems ==
    { [start_time |-> s, end_time |-> s + 500,
       alternatives |-> <<[content |-> w]>>] : s \in TimeStamps, w \in {Hi, Yo} }
    \cup { [start_time |-> 0, end_time |-> 500,
            alternatives |-> <<[content |-> Hi], [content |-> Yo]>>] }

UntimedItems ==
    { [alternatives |-> <<[content |-> Dot]>>],
      [start_time |-> 0, alternatives |-> <<[content |-> Dot]>>],
      [end_time |-> 500, alternatives |-> <<[content |-> Dot]>>] }

ItemSet == TimedItems \cup UntimedItems

ItemLists == UNION { [1..n -> ItemSet] : n \in 0..MaxItems }

\* ================================================================ requests
Reqs == {"r1", "r2"}
FileNames == {"a.wav", "b.wav"}
\* the bytes a request's client sends
Body(r) == <<"bytes of ", r>>
Terminal == {"COMPLETED", "FAILED"}
NoReply == [kind |-> "none"]

\* ------------------------------------------------ the object store (S3)
\* store is a function from <<bucket, key>> to the object's body
HasObject(bucket, key) == <<bucket, key>> \in DOMAIN store

\* put(bucket, key, body): creates or overwrites the object
StorePut(s, bucket, key, body) ==
    [o \in DOMAIN s \cup {<<bucket, key>>} |->
        IF o = <<bucket, key>> THEN body ELSE s[o]]

\* ------------------------------------- the transcription service (Transcribe)
\* jobs is a function from job name to
\* [status, media, source, transcript]; source is the body found at the
\* media URI when the job was submitted.  A job is IN_PROGRESS from its
\* submission (no job queueing is requested, so it is never QUEUED) until
\* the service completes or fails it.
JobExists(name) == name \in DOMAIN jobs

\* TranscriptFileUri of a job whose output goes to a bucket of the caller
TranscriptUriOf(name) ==
    <<"https://s3.", AWS_REGION, ".amazonaws.com/", OUTPUT_BUCKET_NAME, "/">>
    \o name \o <<".json">>

\* the job completes: transcript and subtitle files appear in the output bucket
ServiceComplete(name) ==
    /\ JobExists(name)
    /\ jobs[name].status = "IN_PROGRESS"
    /\ jobs' = [jobs EXCEPT ![name].status = "COMPLETED",
                            ![name].transcript = TranscriptUriOf(name)]
    /\ store' = StorePut(StorePut(StorePut(store,
                    OUTPUT_BUCKET_NAME, name \o <<".json">>, "json"),
                    OUTPUT_BUCKET_NAME, name \o <<".srt">>, "srt"),
                    OUTPUT_BUCKET_NAME, name \o <<".vtt">>, "vtt")
    /\ UNCHANGED <<clock, reqVars, srtVars, upVars>>

\* the job fails
ServiceFail(name) ==
    /\ JobExists(name)
    /\ jobs[name].status = "IN_PROGRESS"
    /\ jobs' = [jobs EXCEPT ![name].status = "FAILED"]
    /\ UNCHANGED <<clock, store, reqVars, srtVars, upVars>>

\* a second of wall-clock time passes (MaxClock stands for "or later")
Tick ==
    /\ clock < MaxClock
    /\ clock' = clock + 1
    /\ UNCHANGED <<store, jobs, reqVars, srtVars, upVars>>

\* ------------------------------------------------------ /transcribe/ handler
Log(r, call) == [calls EXCEPT ![r] = Append(@, call)]

IsPoll(call) == call.op = "get_transcription_job"

Polls(r) == Len(SelectSeq(calls[r], IsPoll))

\* lines 176-177: except Exception as e: raise HTTPException(500, str(e))
ErrorReply(message) == [kind |-> "error", status_code |-> 500, detail |-> message]

\* an object key that does not depend on the filename
ObjectKeyFixed(f) == <<"uploads/", "media.wav">>

\* line 126: f"uploads/{file.filename}"
ObjectKey(f) == <<"uploads/", f.filename>>

\* line 136: f"transcription-{int(time.time())}"
JobName(now) == <<"transcription-">> \o ToStr(now)

\* line 137: f"s3://{BUCKET_NAME}/{s3_object_key}"
FileUri(key) == <<"s3://", BUCKET_NAME, "/">> \o key

\* line 167: transcript_uri.split(f"{OUTPUT_BUCKET_NAME}/")[-1]
RECURSIVE AfterLastBucket(_)
AfterLastBucket(uri) ==
    IF \E i \in 1..(Len(uri) - 1) : uri[i] = OUTPUT_BUCKET_NAME /\ uri[i + 1] = "/"
    THEN LET i == CHOOSE k \in 1..(Len(uri) - 1) :
                      uri[k] = OUTPUT_BUCKET_NAME /\ uri[k + 1] = "/"
         IN  AfterLastBucket(SubSeq(uri, i + 2, Len(uri)))
    ELSE uri

\* a subtitle URL that leaves the job's timestamp out
SrtFileUrlOfPrefix(name) ==
    <<"https://", OUTPUT_BUCKET_NAME, ".s3.", AWS_REGION, ".amazonaws.com/">>
    \o <<"transcription">> \o <<".srt">>

\* a subtitle URL that names the input bucket
SrtFileUrlOfInputBucket(name) ==
    <<"https://", BUCKET_NAME, ".s3.", AWS_REGION, ".amazonaws.com/">>
    \o name \o <<".srt">>

\* lines 171-172: the subtitle URL built from the job name
SrtFileUrl(name) ==
    <<"https://", OUTPUT_BUCKET_NAME, ".s3.", AWS_REGION, ".amazonaws.com/">>
    \o name \o <<".srt">>

\* lines 125-133, put_object succeeds
PutOk(r, name) ==
    /\ pc[r] = "idle"
    /\ LET f == [filename |-> name, content |-> Body(r)]
       IN  /\ file' = [file EXCEPT ![r] = f]
           /\ store' = StorePut(store, BUCKET_NAME, ObjectKey(f), f.content)
           /\ calls' = Log(r, [op |-> "put_object", bucket |-> BUCKET_NAME,
                               key |-> ObjectKey(f), ok |-> TRUE])
    /\ pc' = [pc EXCEPT ![r] = "start"]
    /\ UNCHANGED <<clock, jobs, job_name, file_uri, response, job_status,
                   reply, srtVars, upVars>>

\* a failed put_object whose error is swallowed: the handler goes on
PutFailIgnored(r, name) ==
    /\ pc[r] = "idle"
    /\ LET f == [filename |-> name, content |-> Body(r)]
       IN  /\ file' = [file EXCEPT ![r] = f]
           /\ calls' = Log(r, [op |-> "put_object", bucket |-> BUCKET_NAME,
                               key |-> ObjectKey(f), ok |-> FALSE])
    /\ pc' = [pc EXCEPT ![r] = "start"]
    /\ UNCHANGED <<clock, store, jobs, job_name, file_uri, response,
                   job_status, reply, srtVars, upVars>>

\* lines 125-133, put_object raises
PutFail(r, name) ==
    /\ pc[r] = "idle"
    /\ LET f == [filename |-> name, content |-> Body(r)]
       IN  /\ file' = [file EXCEPT ![r] = f]
           /\ calls' = Log(r, [op |-> "put_object", bucket |-> BUCKET_NAME,
                               key |-> ObjectKey(f), ok |-> FALSE])
    /\ reply' = [reply EXCEPT ![r] = ErrorReply(<<"put_object failed">>)]
    /\ pc' = [pc EXCEPT ![r] = "done"]
    /\ UNCHANGED <<clock, store, jobs, job_name, file_uri, response,
                   job_status, srtVars, upVars>>

\* lines 136-151, start_transcription_job accepted: the name is unused
StartJobOk(r) ==
    /\ pc[r] = "start"
    /\ LET name == JobName(clock)
           uri == FileUri(ObjectKey(file[r]))
       IN  /\ ~JobExists(name)
           /\ job_name' = [job_name EXCEPT ![r] = name]
           /\ file_uri' = [file_uri EXCEPT ![r] = uri]
           /\ jobs' = [n \in DOMAIN jobs \cup {name} |->
                         IF n = name
                         THEN [status |-> "IN_PROGRESS", media |-> uri,
                               source |-> store[<<BUCKET_NAME, ObjectKey(file[r])>>],
                               transcript |-> <<>>]
                         ELSE jobs[n]]
           /\ calls' = Log(r, [op |-> "start_transcription_job", name |-> name,
                               media |-> uri, ok |-> TRUE])
    /\ pc' = [pc EXCEPT ![r] = "poll"]
    /\ UNCHANGED <<clock, store, file, response, job_status, reply, srtVars, upVars>>

\* lines 136-151, start_transcription_job raises (a name in use is a
\* ConflictException; any call can fail)
StartJobFail(r) ==
    /\ pc[r] = "start"
    /\ LET name == JobName(clock)
           uri == FileUri(ObjectKey(file[r]))
       IN  /\ job_name' = [job_name EXCEPT ![r] = name]
           /\ file_uri' = [file_uri EXCEPT ![r] = uri]
           /\ calls' = Log(r, [op |-> "start_transcription_job", name |-> name,
                               media |-> uri, ok |-> FALSE])
    /\ reply' = [reply EXCEPT ![r] = ErrorReply(<<"start_transcription_job failed">>)]
    /\ pc' = [pc EXCEPT ![r] = "done"]
    /\ UNCHANGED <<clock, store, jobs, file, response, job_status, srtVars, upVars>>

\* a loop test that also breaks on IN_PROGRESS
LoopBreaksOnAny(status) == status \in Terminal \cup {"IN_PROGRESS"}

\* line 158: job_status in ["COMPLETED", "FAILED"]
LoopBreaks(status) == status \in Terminal

\* a poll that also writes the status it read into the output bucket
GetJobOkRecording(r) ==
    /\ pc[r] = "poll"
    /\ Polls(r) < MaxPolls
    /\ JobExists(job_name[r])
    /\ LET job == jobs[job_name[r]]
       IN  /\ response' = [response EXCEPT ![r] =
                  [TranscriptionJobStatus |-> job.status,
                   TranscriptFileUri |-> job.transcript]]
           /\ job_status' = [job_status EXCEPT ![r] = job.status]
           /\ calls' = Log(r, [op |-> "get_transcription_job",
                               name |-> job_name[r], ok |-> TRUE,
                               status |-> job.status])
           /\ store' = StorePut(store, OUTPUT_BUCKET_NAME,
                                job_name[r] \o <<".status">>, job.status)
           /\ pc' = [pc EXCEPT ![r] =
                  IF LoopBreaks(job.status)
                  THEN (IF job.status = "FAILED" THEN "failed" ELSE "fetch")
                  ELSE "sleep"]
    /\ UNCHANGED <<clock, jobs, file, job_name, file_uri, reply, srtVars, upVars>>

\* lines 155-160, get_transcription_job answers; the loop breaks on a
\* terminal status (line 162 then picks the branch) and sleeps otherwise
GetJobOk(r) ==
    /\ pc[r] = "poll"
    /\ Polls(r) < MaxPolls
    /\ JobExists(job_name[r])
    /\ LET job == jobs[job_name[r]]
       IN  /\ response' = [response EXCEPT ![r] =
                  [TranscriptionJobStatus |-> job.status,
                   TranscriptFileUri |-> job.transcript]]
           /\ job_status' = [job_status EXCEPT ![r] = job.status]
           /\ calls' = Log(r, [op |-> "get_transcription_job",
                               name |-> job_name[r], ok |-> TRUE,
                               status |-> job.status])
           /\ pc' = [pc EXCEPT ![r] =
                  IF LoopBreaks(job.status)
                  THEN (IF job.status = "FAILED" THEN "failed" ELSE "fetch")
                  ELSE "sleep"]
    /\ UNCHANGED <<clock, store, jobs, file, job_name, file_uri, reply, srtVars, upVars>>

\* a failed poll that is tried again
GetJobFailRetried(r) ==
    /\ pc[r] = "poll"
    /\ Polls(r) < MaxPolls
    /\ calls' = Log(r, [op |-> "get_transcription_job", name |-> job_name[r],
                        ok |-> FALSE, status |-> "none"])
    /\ UNCHANGED <<clock, store, jobs, pc, file, job_name, file_uri, response,
                   job_status, reply, srtVars, upVars>>

\* line 155, get_transcription_job raises
GetJobFail(r) ==
    /\ pc[r] = "poll"
    /\ Polls(r) < MaxPolls
    /\ calls' = Log(r, [op |-> "get_transcription_job", name |-> job_name[r],
                        ok |-> FALSE, status |-> "none"])
    /\ reply' = [reply EXCEPT ![r] = ErrorReply(<<"get_transcription_job failed">>)]
    /\ pc' = [pc EXCEPT ![r] = "done"]
    /\ UNCHANGED <<clock, store, jobs, file, job_name, file_uri, response,
                   job_status, srtVars, upVars>>

\* a loop that gives up after the sleep
SleepTimesOut(r) ==
    /\ pc[r] = "sleep"
    /\ clock' = IF clock + SleepSecs > MaxClock THEN MaxClock ELSE clock + SleepSecs
    /\ reply' = [reply EXCEPT ![r] = ErrorReply(<<"timed out">>)]
    /\ pc' = [pc EXCEPT ![r] = "done"]
    /\ UNCHANGED <<store, jobs, file, job_name, file_uri, response, job_status,
                   calls, srtVars, upVars>>

\* a loop whose body starts at the job submission
SleepResubmits(r) ==
    /\ pc[r] = "sleep"
    /\ clock' = IF clock + SleepSecs > MaxClock THEN MaxClock ELSE clock + SleepSecs
    /\ pc' = [pc EXCEPT ![r] = "start"]
    /\ UNCHANGED <<store, jobs, file, job_name, file_uri, response, job_status,
                   reply, calls, srtVars, upVars>>

\* line 160: time.sleep(5); the request is back at line 155 afterwards
Sleep(r) ==
    /\ pc[r] = "sleep"
    /\ clock' = IF clock + SleepSecs > MaxClock THEN MaxClock ELSE clock + SleepSecs
    /\ pc' = [pc EXCEPT ![r] = "poll"]
    /\ UNCHANGED <<store, jobs, file, job_name, file_uri, response, job_status,
                   reply, calls, srtVars, upVars>>

\* a handler without the FAILED check that goes on to the result fetch
RaiseFailedFetches(r) ==
    /\ pc[r] = "failed"
    /\ pc' = [pc EXCEPT ![r] = "fetch"]
    /\ UNCHANGED <<envVars, file, job_name, file_uri, response, job_status,
                   reply, calls, srtVars, upVars>>

\* a handler without the FAILED check: the URL is returned all the same
RaiseFailedReturnsUrl(r) ==
    /\ pc[r] = "failed"
    /\ reply' = [reply EXCEPT ![r] =
                    [kind |-> "ok", message |-> "Transcription successful",
                     srt_file_url |-> SrtFileUrl(job_name[r])]]
    /\ pc' = [pc EXCEPT ![r] = "done"]
    /\ UNCHANGED <<envVars, file, job_name, file_uri, response, job_status,
                   calls, srtVars, upVars>>

\* lines 162-163 and 176-177: the HTTPException raised for FAILED is caught by
\* the handler's own except clause and raised again with str(e) as detail
RaiseFailed(r) ==
    /\ pc[r] = "failed"
    /\ reply' = [reply EXCEPT ![r] =
                    ErrorReply(<<"500", ": ", "Transcription failed.">>)]
    /\ pc' = [pc EXCEPT ![r] = "done"]
    /\ UNCHANGED <<envVars, file, job_name, file_uri, response, job_status,
                   calls, srtVars, upVars>>

\* the key line 167 asks the store for
TranscriptKey(r) == AfterLastBucket(response[r].TranscriptFileUri)

\* lines 166-174: get_object answers, the body decodes, the URL is returned
FetchOk(r) ==
    /\ pc[r] = "fetch"
    /\ HasObject(OUTPUT_BUCKET_NAME, TranscriptKey(r))
    /\ calls' = Log(r, [op |-> "get_object", bucket |-> OUTPUT_BUCKET_NAME,
                        key |-> TranscriptKey(r), ok |-> TRUE, json |-> TRUE])
    /\ reply' = [reply EXCEPT ![r] =
                    [kind |-> "ok", message |-> "Transcription successful",
                     srt_file_url |-> SrtFileUrl(job_name[r])]]
    /\ pc' = [pc EXCEPT ![r] = "done"]
    /\ UNCHANGED <<envVars, file, job_name, file_uri, response, job_status,
                   srtVars, upVars>>

\* line 167: get_object raises
FetchFail(r) ==
    /\ pc[r] = "fetch"
    /\ calls' = Log(r, [op |-> "get_object", bucket |-> OUTPUT_BUCKET_NAME,
                        key |-> TranscriptKey(r), ok |-> FALSE, json |-> FALSE])
    /\ reply' = [reply EXCEPT ![r] = ErrorReply(<<"get_object failed">>)]
    /\ pc' = [pc EXCEPT ![r] = "done"]
    /\ UNCHANGED <<envVars, file, job_name, file_uri, response, job_status,
                   srtVars, upVars>>

\* line 168: get_object answers but the bytes read do not decode as JSON
FetchBadJson(r) ==
    /\ pc[r] = "fetch"
    /\ HasObject(OUTPUT_BUCKET_NAME, TranscriptKey(r))
    /\ calls' = Log(r, [op |-> "get_object", bucket |-> OUTPUT_BUCKET_NAME,
                        key |-> TranscriptKey(r), ok |-> TRUE, json |-> FALSE])
    /\ reply' = [reply EXCEPT ![r] = ErrorReply(<<"json.loads failed">>)]
    /\ pc' = [pc EXCEPT ![r] = "done"]
    /\ UNCHANGED <<envVars, file, job_name, file_uri, response, job_status,
                   srtVars, upVars>>

\* ----------------------------------------------------- /upload/media/ handler
Uploads == {"u1", "u2"}
\* the bytes an upload's client sends
UploadBody(u) == <<"bytes of ", u>>

\* line 68: f"uploads/{file.filename}"
UploadKey(name) == <<"uploads/", name>>

\* an object URL that names the output bucket
FileUrlOfOutputBucket(key) ==
    <<"https://", OUTPUT_BUCKET_NAME, ".s3.amazonaws.com/">> \o key

\* line 80: f"https://{BUCKET_NAME}.s3.amazonaws.com/{s3_object_key}"
FileUrl(key) == <<"https://", BUCKET_NAME, ".s3.amazonaws.com/">> \o key

\* lines 65-81: put_object succeeds and the object URL is returned
UploadOk(u, name) ==
    /\ up_pc[u] = "idle"
    /\ up_key' = [up_key EXCEPT ![u] = UploadKey(name)]
    /\ store' = StorePut(store, BUCKET_NAME, UploadKey(name), UploadBody(u))
    /\ up_calls' = [up_calls EXCEPT ![u] =
                       Append(@, [op |-> "put_object", bucket |-> BUCKET_NAME,
                                  key |-> UploadKey(name), ok |-> TRUE])]
    /\ up_reply' = [up_reply EXCEPT ![u] =
                       [kind |-> "ok", message |-> "File uploaded successfully",
                        file_url |-> FileUrl(UploadKey(name))]]
    /\ up_pc' = [up_pc EXCEPT ![u] = "done"]
    /\ UNCHANGED <<clock, jobs, reqVars, srtVars>>

\* lines 83-84: put_object raises NoCredentialsError
UploadNoCredentials(u, name) ==
    /\ up_pc[u] = "idle"
    /\ up_key' = [up_key EXCEPT ![u] = UploadKey(name)]
    /\ up_calls' = [up_calls EXCEPT ![u] =
                       Append(@, [op |-> "put_object", bucket |-> BUCKET_NAME,
                                  key |-> UploadKey(name), ok |-> FALSE])]
    /\ up_reply' = [up_reply EXCEPT ![u] =
                       ErrorReply(<<"AWS Credentials not found">>)]
    /\ up_pc' = [up_pc EXCEPT ![u] = "done"]
    /\ UNCHANGED <<envVars, reqVars, srtVars>>

\* lines 85-86: put_object raises any other exception
UploadFail(u, name) ==
    /\ up_pc[u] = "idle"
    /\ up_key' = [up_key EXCEPT ![u] = UploadKey(name)]
    /\ up_calls' = [up_calls EXCEPT ![u] =
                       Append(@, [op |-> "put_object", bucket |-> BUCKET_NAME,
                                  key |-> UploadKey(name), ok |-> FALSE])]
    /\ up_reply' = [up_reply EXCEPT ![u] = ErrorReply(<<"put_object failed">>)]
    /\ up_pc' = [up_pc EXCEPT ![u] = "done"]
    /\ UNCHANGED <<envVars, reqVars, srtVars>>

UpInit ==
    /\ up_pc = [u \in Uploads |-> "idle"]
    /\ up_key = [u \in Uploads |-> <<>>]
    /\ up_reply = [u \in Uploads |-> NoReply]
    /\ up_calls = [u \in Uploads |-> <<>>]

JobNames == { JobName(c) : c \in 0..MaxClock }

EnvInit ==
    /\ clock = 0
    /\ store = <<>>
    /\ jobs = <<>>

ReqInit ==
    /\ pc = [r \in Reqs |-> "idle"]
    /\ file = [r \in Reqs |-> <<>>]
    /\ job_name = [r \in Reqs |-> <<>>]
    /\ file_uri = [r \in Reqs |-> <<>>]
    /\ response = [r \in Reqs |-> <<>>]
    /\ job_status = [r \in Reqs |-> "unset"]
    /\ reply = [r \in Reqs |-> NoReply]
    /\ calls = [r \in Reqs |-> <<>>]

SrtOff ==
    /\ transcription_json = [results |-> [items |-> <<>>]]
    /\ pos = 0
    /\ srt_output = <<>>
    /\ counter = 1
    /\ start_time_srt = <<>>
    /\ end_time_srt = <<>>
    /\ srt_pc = "off"
    /\ srt_result = <<>>

\* convert_to_srt entered with some items list: lines 92, 93
InitSrt ==
    /\ transcription_json \in { [results |-> [items |-> l]] : l \in ItemLists }
    /\ pos = 0
    /\ srt_output = <<>>
    /\ counter = 1
    /\ start_time_srt = <<>>
    /\ end_time_srt = <<>>
    /\ srt_pc = "loop"
    /\ srt_result = <<>>
    /\ EnvInit
    /\ ReqInit
    /\ UpInit

NextSrt == LoopTimed \/ LoopUntimed \/ SrtReturn

SpecSrt == InitSrt /\ [][NextSrt]_vars

\* the server with no request received yet
Init == SrtOff /\ EnvInit /\ ReqInit /\ UpInit

Next ==
    \/ \E r \in Reqs, f \in FileNames : PutOk(r, f)
    \/ \E r \in Reqs, f \in FileNames : PutFail(r, f)
    \/ \E r \in Reqs : StartJobOk(r)
    \/ \E r \in Reqs : StartJobFail(r)
    \/ \E r \in Reqs : GetJobOk(r)
    \/ \E r \in Reqs : GetJobFail(r)
    \/ \E r \in Reqs : Sleep(r)
    \/ \E r \in Reqs : RaiseFailed(r)
    \/ \E r \in Reqs : FetchOk(r)
    \/ \E r \in Reqs : FetchFail(r)
    \/ \E r \in Reqs : FetchBadJson(r)
    \/ \E n \in JobNames : ServiceComplete(n)
    \/ \E n \in JobNames : ServiceFail(n)
    \/ Tick

Spec == Init /\ [][Next]_vars

\* every step of one /transcribe/ request
Handler(r) ==
    \/ \E f \in FileNames : PutOk(r, f)
    \/ \E f \in FileNames : PutFail(r, f)
    \/ StartJobOk(r)
    \/ StartJobFail(r)
    \/ GetJobOk(r)
    \/ GetJobFail(r)
    \/ Sleep(r)
    \/ RaiseFailed(r)
    \/ FetchOk(r)
    \/ FetchFail(r)
    \/ FetchBadJson(r)

\* a request that has been received runs on: the handler's thread is scheduled
\* until it returns or raises
Running(r) == pc[r] # "idle" /\ Handler(r)

SpecLive == Init /\ [][Next]_vars /\ \A r \in Reqs : WF_vars(Running(r))

\* the upload endpoint next to one /transcribe/ request
NextUpload ==
    \/ \E u \in Uploads, f \in FileNames : UploadOk(u, f)
    \/ \E u \in Uploads, f \in FileNames : UploadNoCredentials(u, f)
    \/ \E u \in Uploads, f \in FileNames : UploadFail(u, f)
    \/ \E f \in FileNames : PutOk("r1", f)
    \/ \E f \in FileNames : PutFail("r1", f)
    \/ StartJobOk("r1")
    \/ StartJobFail("r1")
    \/ GetJobOk("r1")
    \/ GetJobFail("r1")
    \/ Sleep("r1")
    \/ RaiseFailed("r1")
    \/ FetchOk("r1")
    \/ FetchFail("r1")
    \/ FetchBadJson("r1")
    \/ \E n \in JobNames : ServiceComplete(n)
    \/ \E n \in JobNames : ServiceFail(n)
    \/ Tick

SpecUpload == Init /\ [][NextUpload]_vars

\* ================================================= properties: convert_to_srt
\* text.split("\n")
RECURSIVE SplitLines(_)
SplitLines(s) ==
    IF \A i \in 1..Len(s) : s[i] # "\n" THEN <<s>>
    ELSE LET i == CHOOSE k \in 1..Len(s) :
                      s[k] = "\n" /\ \A j \in 1..(k - 1) : s[j] # "\n"
         IN  <<SubSeq(s, 1, i - 1)>> \o SplitLines(SubSeq(s, i + 1, Len(s)))

\* n in decimal, zero-padded on the left to at least w digits
PadTo(n, w) ==
    LET d == ToStr(n)
    IN  [i \in 1..(IF Len(d) < w THEN w - Len(d) ELSE 0) |-> "0"] \o d

\* the reference HH:MM:SS,mmm of a timestamp in milliseconds
RefClock(t) ==
    LET secs == t \div 1000
    IN  PadTo(secs \div 3600, 2) \o <<":">> \o PadTo((secs \div 60) % 60, 2)
        \o <<":">> \o PadTo(secs % 60, 2) \o <<",">> \o PadTo(t % 1000, 3)

\* ^\d{2}:\d{2}:\d{2},\d{3}$
MatchesClock(s) ==
    /\ Len(s) = 12
    /\ \A i \in {1, 2, 4, 5, 7, 8, 10, 11, 12} : IsDigit(s[i])
    /\ s[3] = ":" /\ s[6] = ":" /\ s[9] = ","

\* the items consumed so far that carry both times, in input order
TimedSoFar == SelectSeq(SubSeq(Items, 1, pos), IsTimed)

Arrow == <<" ", "-", "-", ">", " ">>

\* C5: every clock string convert_to_srt builds has the shape
\* dd:dd:dd,ddd (the millisecond field is three digits wide).
C5_ClockShape ==
    start_time_srt # <<>> =>
        MatchesClock(start_time_srt) /\ MatchesClock(end_time_srt)

\* C6: the clock strings built for a timed item are the reference
\* HH:MM:SS,mmm of its start and end time (hours not wrapped at 24,
\* milliseconds zero-padded to three digits).
C6_ClockReference ==
    (pos > 0 /\ IsTimed(Items[pos])) =>
        /\ start_time_srt = RefClock(Items[pos].start_time)
        /\ end_time_srt = RefClock(Items[pos].end_time)

\* C7: there is exactly one cue per item carrying both times and none for
\* the others; cue k belongs to the k-th timed item of the input and carries
\* the index k, so the indices are 1..N in input order.
C7_OneCuePerTimedItem ==
    srt_pc # "off" =>
        /\ Len(srt_output) = Len(TimedSoFar)
        /\ counter = Len(TimedSoFar) + 1
        /\ \A k \in 1..Len(srt_output) :
              LET lines == SplitLines(srt_output[k])
                  item == TimedSoFar[k]
              IN  /\ Len(lines) = 4
                  /\ lines[1] = ToStr(k)
                  /\ lines[2] = ClockString(item.start_time) \o Arrow
                                  \o ClockString(item.end_time)
                  /\ lines[3] = item.alternatives[1].content
                  /\ lines[4] = <<>>

C7_Witness ==
    /\ srt_pc = "returned"
    /\ Len(Items) = 3
    /\ IsTimed(Items[1]) /\ ~IsTimed(Items[2]) /\ IsTimed(Items[3])
    /\ Len(srt_output) = 2
    /\ Head(srt_output[2]) = "2"

HiToken == [start_time |-> 0, end_time |-> 500,
            alternatives |-> <<[content |-> Hi]>>]

\* "1\n00:00:00,000 --> 00:00:00,500\nhi\n"
HiDocument ==
    <<"1", "\n", "0", "0", ":", "0", "0", ":", "0", "0", ",", "0", "0", "0",
      " ", "-", "-", ">", " ",
      "0", "0", ":", "0", "0", ":", "0", "0", ",", "5", "0", "0", "\n",
      "h", "i", "\n">>

\* C8: every cue is '<index>\n<start> --> <end>\n<content>\n' with the
\* HH:MM:SS,mmm clock strings of its item, and the single token
\* {content: "hi", start: 0.0, end: 0.5} gives exactly
\* "1\n00:00:00,000 --> 00:00:00,500\nhi\n".
C8_CueText ==
    /\ \A k \in 1..Len(srt_output) :
          srt_output[k] =
              ToStr(k) \o <<"\n">> \o RefClock(TimedSoFar[k].start_time) \o Arrow
              \o RefClock(TimedSoFar[k].end_time) \o <<"\n">>
              \o TimedSoFar[k].alternatives[1].content \o <<"\n">>
    /\ (srt_pc = "returned" /\ Items = <<HiToken>>) => srt_result = HiDocument

\* offset of cue k in a document whose cues are one separator apart
RECURSIVE CueOffset(_)
CueOffset(k) == IF k = 1 THEN 0
                ELSE CueOffset(k - 1) + Len(srt_output[k - 1]) + 1

\* C9: the returned document is its cues in order with exactly one blank
\* line between consecutive cues and nothing before the first; no cue (no
\* item, or only untimed items) gives the empty document.
C9_BlankLineBetweenCues ==
    srt_pc = "returned" =>
        LET n == Len(srt_output)
        IN  /\ n = 0 => srt_result = <<>>
            /\ n > 0 =>
                 /\ Len(srt_result) = CueOffset(n) + Len(srt_output[n])
                 /\ \A k \in 1..n :
                      /\ SubSeq(srt_result, CueOffset(k) + 1,
                                CueOffset(k) + Len(srt_output[k])) = srt_output[k]
                      /\ srt_result[CueOffset(k) + 1] # "\n"
                      /\ k > 1 => /\ srt_result[CueOffset(k)] = "\n"
                                  /\ srt_result[CueOffset(k) - 1] = "\n"
                                  /\ srt_result[CueOffset(k) - 2] # "\n"

C9_Witness ==
    /\ srt_pc = "returned"
    /\ Len(srt_output) = 2
    /\ Len(Items) = 3
    /\ srt_result # <<>>

\* ============================================ properties: /transcribe/ handler
LastCall(r) == calls[r][Len(calls[r])]

HasUrl(r) == "srt_file_url" \in DOMAIN reply[r]

\* https://<output bucket>.s3.<region>.amazonaws.com/<key>.srt
WellFormedUrl(u) ==
    /\ Len(u) > 6
    /\ u[1] = "https://"
    /\ u[2] = OUTPUT_BUCKET_NAME
    /\ u[3] = ".s3."
    /\ u[4] = AWS_REGION
    /\ u[5] = ".amazonaws.com/"
    /\ u[Len(u)] = ".srt"

\* C1: a request whose polling loop saw FAILED never has a response with an
\* srt_file_url, and the response it ends with is an error.
C1_FailedNeverReturnsUrl ==
    \A r \in Reqs :
        job_status[r] = "FAILED" =>
            /\ ~HasUrl(r)
            /\ pc[r] \in {"failed", "done"}
            /\ pc[r] = "done" => reply[r].kind = "error"

C1_Witness ==
    \E r \in Reqs :
        /\ job_status[r] = "FAILED"
        /\ pc[r] = "done"
        /\ reply[r].kind = "error"

\* C2 as stated: a request whose polling loop saw COMPLETED ends with a
\* success response carrying a well-formed URL of the output bucket,
\* whatever the result fetch and the JSON decoding do.
C2_CompletedAlwaysReturnsUrl ==
    \A r \in Reqs :
        (job_status[r] = "COMPLETED" /\ pc[r] = "done") =>
            /\ reply[r].kind = "ok"
            /\ HasUrl(r)
            /\ WellFormedUrl(reply[r].srt_file_url)

\* C2 amended: a request whose polling loop saw COMPLETED ends with a success
\* response carrying a well-formed URL of the output bucket exactly when the
\* result fetch answered and its body decoded; otherwise it ends with an
\* error response without an srt_file_url.
C2_CompletedReturnsUrlIfFetched ==
    \A r \in Reqs :
        (job_status[r] = "COMPLETED" /\ pc[r] = "done") =>
            /\ LastCall(r).op = "get_object"
            /\ IF LastCall(r).ok /\ LastCall(r).json
               THEN /\ reply[r].kind = "ok"
                    /\ HasUrl(r)
                    /\ WellFormedUrl(reply[r].srt_file_url)
               ELSE /\ reply[r].kind = "error"
                    /\ ~HasUrl(r)

C2_Witness ==
    \E r \in Reqs :
        /\ job_status[r] = "COMPLETED"
        /\ pc[r] = "done"
        /\ LastCall(r).op = "get_object" /\ LastCall(r).ok /\ LastCall(r).json
        /\ HasUrl(r)

\* C3: when the upload (put_object) fails the request ends with an error and
\* makes no submission, no poll and no result fetch.
C3_PutFailureStops ==
    \A r \in Reqs :
        (calls[r] # <<>> /\ calls[r][1].op = "put_object" /\ ~calls[r][1].ok) =>
            /\ Len(calls[r]) = 1
            /\ pc[r] = "done"
            /\ reply[r].kind = "error"
            /\ ~HasUrl(r)

C3_Witness ==
    \E r \in Reqs :
        /\ calls[r] # <<>> /\ ~calls[r][1].ok
        /\ pc[r] = "done"
        /\ \E q \in Reqs : q # r /\ Len(calls[q]) > 1

LastPollNonTerminal(r) ==
    /\ calls[r] # <<>>
    /\ IsPoll(LastCall(r))
    /\ LastCall(r).ok
    /\ LastCall(r).status \notin Terminal

InPolling(p) == p \in {"poll", "sleep"}

\* C4: the request leaves the polling phase only on a terminal status or a
\* failed poll; after a poll that returned a non-terminal status its next
\* external call is another poll of the same job, and no success response
\* exists while the last observed status is non-terminal.
C4_PollUntilTerminal ==
    [][\A r \in Reqs :
          /\ (LastPollNonTerminal(r) /\ calls'[r] # calls[r]) =>
                /\ Len(calls'[r]) = Len(calls[r]) + 1
                /\ IsPoll(calls'[r][Len(calls'[r])])
                /\ calls'[r][Len(calls'[r])].name = LastCall(r).name
          /\ (InPolling(pc[r]) /\ ~InPolling(pc'[r])) =>
                \/ job_status'[r] \in Terminal
                \/ (IsPoll(calls'[r][Len(calls'[r])]) /\ ~calls'[r][Len(calls'[r])].ok)
          /\ (pc'[r] # "idle" /\ job_status'[r] \notin Terminal) =>
                reply'[r].kind # "ok"
      ]_vars

C4_Witness ==
    \E r \in Reqs :
        /\ Len(calls[r]) >= 4
        /\ calls[r][3].op = "get_transcription_job"
        /\ calls[r][3].status = "IN_PROGRESS"
        /\ calls[r][4].op = "get_transcription_job"
        /\ calls[r][4].name = calls[r][3].name

\* the place of a call in the sequence upload, submission, polls, fetch
Phase(call) ==
    CASE call.op = "put_object" -> 1
      [] call.op = "start_transcription_job" -> 2
      [] call.op = "get_transcription_job" -> 3
      [] call.op = "get_object" -> 4

Count(r, op) == Cardinality({i \in 1..Len(calls[r]) : calls[r][i].op = op})

\* C10: the external calls of a request come in the order upload, submission,
\* polls, fetch; there is at most one upload, one submission and one fetch,
\* a fetch comes after at least one poll, and a successful request made
\* exactly one upload, exactly one submission and at least one poll.
C10_CallOrderAndCounts ==
    \A r \in Reqs :
        /\ \A i, j \in 1..Len(calls[r]) :
              i < j => /\ Phase(calls[r][i]) <= Phase(calls[r][j])
                       /\ Phase(calls[r][i]) = Phase(calls[r][j]) =>
                              Phase(calls[r][i]) = 3
        /\ Count(r, "put_object") <= 1
        /\ Count(r, "start_transcription_job") <= 1
        /\ Count(r, "get_object") <= 1
        /\ Count(r, "get_object") = 1 => Count(r, "get_transcription_job") >= 1
        /\ reply[r].kind = "ok" =>
              /\ Count(r, "put_object") = 1
              /\ Count(r, "start_transcription_job") = 1
              /\ Count(r, "get_transcription_job") >= 1

C10_Witness ==
    \E r \in Reqs :
        /\ reply[r].kind = "ok"
        /\ Count(r, "get_transcription_job") = 2
        /\ Count(r, "get_object") = 1

\* ====================================== properties: names, failures, uploads
\* the request has passed a job name to start_transcription_job
Submitted(r) == Len(calls[r]) >= 2 /\ calls[r][2].op = "start_transcription_job"

\* the service accepted the request's job
Accepted(r) == Submitted(r) /\ calls[r][2].ok

\* C11: two distinct requests never pass the same job name to the
\* transcription service, also when both submit within one clock second.
C11_JobNamesUnique ==
    \A r, q \in Reqs :
        (r # q /\ Submitted(r) /\ Submitted(q)) =>
            calls[r][2].name # calls[q][2].name

\* str(e) of the exception a failed call raised
MessageOf(call) ==
    CASE call.op = "put_object" -> <<"put_object failed">>
      [] call.op = "start_transcription_job" -> <<"start_transcription_job failed">>
      [] call.op = "get_transcription_job" -> <<"get_transcription_job failed">>
      [] call.op = "get_object" -> <<"get_object failed">>

\* C12: a failed external call is the last external call of its request
\* (nothing is retried, nothing follows), and the request ends at once with
\* a status-500 response whose detail is the error's message.
C12_FailureIsTerminal ==
    \A r \in Reqs : \A i \in 1..Len(calls[r]) :
        ~calls[r][i].ok =>
            /\ i = Len(calls[r])
            /\ pc[r] = "done"
            /\ reply[r].kind = "error"
            /\ reply[r].status_code = 500
            /\ reply[r].detail = MessageOf(calls[r][i])
            /\ ~HasUrl(r)

C12_Witness ==
    /\ \E r \in Reqs : /\ Len(calls[r]) = 3
                       /\ ~calls[r][3].ok
                       /\ calls[r][3].op = "get_transcription_job"
    /\ \E r \in Reqs : /\ Len(calls[r]) = 2
                       /\ ~calls[r][2].ok

\* C13: a successful /upload/media/ request made exactly one put_object,
\* into the input bucket under uploads/<filename>, and its file_url names
\* that bucket and that key; when the put fails the response is an error
\* without a file_url.
C13_UploadPutsOnceAndNamesIt ==
    \A u \in Uploads :
        up_pc[u] = "done" =>
            /\ Len(up_calls[u]) = 1
            /\ up_calls[u][1].op = "put_object"
            /\ up_calls[u][1].bucket = BUCKET_NAME
            /\ \E f \in FileNames : up_calls[u][1].key = <<"uploads/", f>>
            /\ IF up_calls[u][1].ok
               THEN /\ up_reply[u].kind = "ok"
                    /\ up_reply[u].file_url =
                          <<"https://", up_calls[u][1].bucket, ".s3.amazonaws.com/">>
                          \o up_calls[u][1].key
                    /\ HasObject(up_calls[u][1].bucket, up_calls[u][1].key)
               ELSE /\ up_reply[u].kind = "error"
                    /\ "file_url" \notin DOMAIN up_reply[u]

C13_Witness ==
    /\ \E u \in Uploads : up_pc[u] = "done" /\ up_reply[u].kind = "ok"
    /\ \E u \in Uploads : up_pc[u] = "done" /\ up_reply[u].kind = "error"

\* the step is a status poll of request r
PollStep(r) ==
    /\ Len(calls'[r]) = Len(calls[r]) + 1
    /\ IsPoll(calls'[r][Len(calls'[r])])

\* C14: a status poll changes neither the service's jobs (status, source
\* URI, result URI) nor the object store, nor any other request.
C14_PollHasNoSideEffect ==
    [][\A r \in Reqs :
          PollStep(r) =>
              /\ jobs' = jobs
              /\ store' = store
              /\ \A q \in Reqs \ {r} :
                    /\ pc'[q] = pc[q]
                    /\ reply'[q] = reply[q]
                    /\ job_status'[q] = job_status[q]
      ]_vars

C14_Witness ==
    \E r \in Reqs :
        /\ Polls(r) = 2
        /\ jobs[job_name[r]].status = "COMPLETED"
        /\ reply[r].kind = "ok"

NoCallFailed(r) == \A i \in 1..Len(calls[r]) : calls[r][i].ok

\* the service reports a terminal status for the job of r
JobIsTerminal(r) ==
    /\ JobExists(job_name[r])
    /\ jobs[job_name[r]].status \in Terminal

\* C15: once the service reports a terminal status, a polling request
\* eventually produces a response; a poll that returns a non-terminal status
\* is always followed by the sleep and another poll (no attempt limit, no
\* timeout), so a request without a failed call responds only after it saw
\* a terminal status.
C15_PollingEndsOnlyThroughService ==
    /\ \A r \in Reqs :
          (InPolling(pc[r]) /\ Polls(r) < MaxPolls /\ JobIsTerminal(r))
              ~> (pc[r] = "done" /\ reply[r].kind # "none")
    /\ [][\A r \in Reqs :
             (PollStep(r) /\ calls'[r][Len(calls'[r])].ok
                 /\ calls'[r][Len(calls'[r])].status \notin Terminal)
                 => pc'[r] = "sleep"]_vars
    /\ [](\A r \in Reqs :
             (reply[r].kind # "none" /\ NoCallFailed(r)) =>
                 job_status[r] \in Terminal)
    /\ [](\A r \in Reqs :
             (pc[r] = "sleep" /\ job_status[r] \notin Terminal) =>
                 reply[r].kind = "none")

C15_Witness ==
    \E r \in Reqs :
        /\ Polls(r) = 2
        /\ calls[r][3].status = "IN_PROGRESS"
        /\ NoCallFailed(r)
        /\ pc[r] = "done"
        /\ reply[r].kind = "ok"

\* C16: the result URI is read and get_object issued only after a poll that
\* returned COMPLETED: never after FAILED, never on a non-terminal status.
C16_FetchOnlyWhenCompleted ==
    \A r \in Reqs :
        /\ pc[r] = "fetch" =>
              /\ job_status[r] = "COMPLETED"
              /\ response[r].TranscriptionJobStatus = "COMPLETED"
        /\ \A i \in 1..Len(calls[r]) :
              calls[r][i].op = "get_object" =>
                  /\ i > 1
                  /\ IsPoll(calls[r][i - 1])
                  /\ calls[r][i - 1].ok
                  /\ calls[r][i - 1].status = "COMPLETED"
                  /\ job_status[r] = "COMPLETED"

C16_Witness ==
    /\ \E r \in Reqs : calls[r] # <<>> /\ LastCall(r).op = "get_object"
    /\ \E r \in Reqs : job_status[r] = "FAILED" /\ pc[r] = "done"

\* the requests that uploaded a file with the filename of r
Uploaders(r) ==
    { q \in Reqs : /\ calls[q] # <<>>
                   /\ calls[q][1].ok
                   /\ file[q].filename = file[r].filename }

\* the media bytes the service found at the source URI of r's job
SourceOf(r) == jobs[calls[r][2].name].source

\* C17 as stated: the media found at a request's source URI when its job is
\* submitted is the bytes this request uploaded, whatever the other does.
C17_SourceIsOwnUpload ==
    \A r \in Reqs : Accepted(r) => SourceOf(r) = Body(r)

\* C17 amended: the media found at the source URI is the bytes of some
\* request that uploaded under the same filename, and this request's own
\* bytes when no other request uploaded under that filename.
C17_SourceIsAnUploadOfThatName ==
    \A r \in Reqs :
        Accepted(r) =>
            /\ calls[r][1].key = <<"uploads/", file[r].filename>>
            /\ jobs[calls[r][2].name].media =
                  <<"s3://", BUCKET_NAME, "/">> \o calls[r][1].key
            /\ SourceOf(r) \in { Body(q) : q \in Uploaders(r) }
            /\ Uploaders(r) = {r} => SourceOf(r) = Body(r)

C17_Witness ==
    \E r, q \in Reqs :
        /\ r # q
        /\ Accepted(r) /\ Accepted(q)
        /\ calls[r][1].key # calls[q][1].key
        /\ SourceOf(r) = Body(r)
        /\ SourceOf(q) = Body(q)

\* C18: the name given to start_transcription_job is the name of every poll,
\* and the srt_file_url of a success response is
\* https://<output bucket>.s3.<region>.amazonaws.com/<that name>.srt: the
\* subtitle object of the job this request submitted and saw COMPLETED.
C18_OneJobNameThroughout ==
    \A r \in Reqs :
        /\ \A i \in 1..Len(calls[r]) :
              IsPoll(calls[r][i]) =>
                  /\ Accepted(r)
                  /\ calls[r][i].name = calls[r][2].name
        /\ reply[r].kind = "ok" =>
              LET name == calls[r][2].name
              IN  /\ Accepted(r)
                  /\ reply[r].srt_file_url =
                        <<"https://", OUTPUT_BUCKET_NAME, ".s3.", AWS_REGION,
                          ".amazonaws.com/">> \o name \o <<".srt">>
                  /\ jobs[name].status = "COMPLETED"
                  /\ jobs[name].media = file_uri[r]
                  /\ HasObject(OUTPUT_BUCKET_NAME, name \o <<".srt">>)
                  /\ \A q \in Reqs \ {r} :
                        Accepted(q) => calls[q][2].name # name

C18_Witness ==
    \A r \in Reqs :
        /\ reply[r].kind = "ok"
        /\ Polls(r) = 2

====
